---------------------------- MODULE Spec2Model ----------------------------
(***************************************************************************)
(* A model of the ggpack container reader (package ggpack, type Reader):   *)
(* the XOR cipher DecodeXOR, the method probe of ReadPack, the offset      *)
(* table reader readOffsets, the recursive value decoder readHash /        *)
(* readValue / readString, and the lookup Value.Find.                      *)
(*                                                                         *)
(* Bytes are the naturals 0..255, a byte slice is a sequence of bytes      *)
(* (1-based here, 0-based in the Go source), a Go string is the sequence   *)
(* of its bytes.                                                           *)
(***************************************************************************)
EXTENDS Integers, Sequences, FiniteSets, TLC

VARIABLES
    stream,     \* r.Reader: the bytes of the input file
    origin,     \* how the packer made that file: [kind, m, tree]
    method,     \* r.method
    offsets,    \* r.offsets
    entries,    \* r.entries (Nil for a nil pointer)
    pc,         \* where ReadPack stands: "idle", "probe", "supported", "done"
    hdr,        \* ReadPack's locals offset and size
    buf,        \* ReadPack's local buf
    err,        \* the error ReadPack returned ("nil" for nil, "panic" for a run-time panic)
    ret,        \* the return statement ReadPack left by ("" while it runs)
    tried,      \* the methods the probe loop of this call has tried, in order
    calls,      \* number of ReadPack calls begun on this Reader
    xorig,      \* a caller's buffer before it was handed to DecodeXOR
    xbuf,       \* the same buffer, mutated in place by DecodeXOR
    napplied,   \* how many times DecodeXOR was applied to xbuf
    query,      \* the last name passed to Entries().Find
    found       \* what that Find returned

vars == <<stream, origin, method, offsets, entries, pc, hdr, buf, err, ret, tried, calls,
          xorig, xbuf, napplied, query, found>>

-----------------------------------------------------------------------------
(* Bytes and fixed-width integers *)

Byte == 0..255

\* XOR of two bytes, bit by bit.
RECURSIVE XorBits(_, _)
XorBits(a, b) ==
    IF a = 0 THEN b
    ELSE IF b = 0 THEN a
    ELSE (((a % 2) + (b % 2)) % 2) + 2 * XorBits(a \div 2, b \div 2)

XorTable == [a \in Byte |-> [b \in Byte |-> XorBits(a, b)]]

\* Go's ^ on two bytes.
Xor(a, b) == XorTable[a][b]

\* int32(binary.LittleEndian.Uint32(b[pos:])): the four bytes of b that start
\* at 0-based pos, little-endian, as a two's-complement 32-bit integer. A
\* uint32 u of the source is carried as int32(u): u >= 2^31 is the negative
\* range, u = 0xffffffff is -1.
Int32At(b, pos) ==
    b[pos+1] + b[pos+2] * 256 + b[pos+3] * 65536
      + (IF b[pos+4] >= 128 THEN b[pos+4] - 256 ELSE b[pos+4]) * 16777216

-----------------------------------------------------------------------------
(* The cipher: Reader.DecodeXOR *)

magicBytes ==
    << 79, 208, 160, 172,
       74,  91, 185, 229,
      147, 121,  69, 165,
      193, 203,  49, 147 >>

\* The multiplier chosen from r.method.
Code(m) == IF m # 2 THEN 109 ELSE 173

\* A wrong start value of the rolling state (the first byte, not the length).
InitialPrevFirstByte(b) == IF Len(b) > 0 THEN b[1] ELSE 0

\* prev := byte(len(buf))
InitialPrev(b) == Len(b) % 256

\* The first loop, from 0-based index i on, with rolling state prev:
\*   x := v ^ magicBytes[i&0xf] ^ byte(i*code); buf[i] = x ^ prev; prev = x
RECURSIVE RollingPass(_, _, _, _)
RollingPass(b, i, prev, code) ==
    IF i >= Len(b) THEN b
    ELSE LET x == Xor(Xor(b[i+1], magicBytes[(i % 16) + 1]), (i * code) % 256)
         IN  RollingPass([b EXCEPT ![i+1] = Xor(x, prev)], i + 1, x, code)

\* A second loop that runs while i itself is inside the buffer and changes the
\* one byte of a stride the buffer still holds.
RECURSIVE PairPassLoose(_, _)
PairPassLoose(b, i) ==
    IF ~(i < Len(b)) THEN b
    ELSE IF i + 1 < Len(b)
    THEN PairPassLoose([b EXCEPT ![i+1] = Xor(b[i+1], 13),
                                 ![i+2] = Xor(b[i+2], 13)], i + 16)
    ELSE [b EXCEPT ![i+1] = Xor(b[i+1], 13)]

\* The second loop, from 0-based index i on:
\*   for i := 5; i+1 < len(buf); i += 16 { buf[i] ^= 0x0d; buf[i+1] ^= 0x0d }
RECURSIVE PairPass(_, _)
PairPass(b, i) ==
    IF ~(i + 1 < Len(b)) THEN b
    ELSE PairPass([b EXCEPT ![i+1] = Xor(b[i+1], 13), ![i+2] = Xor(b[i+2], 13)],
                  i + 16)

\* DecodeXOR(buf) of a Reader whose method field is m: the buffer afterwards.
DecodeXOR(b, m) ==
    LET rolled == RollingPass(b, 0, InitialPrev(b), Code(m))
    IN  IF m # 0 THEN PairPass(rolled, 5) ELSE rolled

-----------------------------------------------------------------------------
(* Values *)

NullType    == 1
HashType    == 2
ArrayType   == 3
StringType  == 4
IntegerType == 5
DoubleType  == 6

\* A nil *Value.
Nil == [typ |-> 0]

\* var Null = &Value{typ: NullType}
Null == [typ |-> NullType]

-----------------------------------------------------------------------------
(* Strings *)

\* Go's < on strings: byte-wise lexicographic order.
RECURSIVE StrLess(_, _)
StrLess(a, b) ==
    IF b = <<>> THEN FALSE
    ELSE IF a = <<>> THEN TRUE
    ELSE IF a[1] # b[1] THEN a[1] < b[1]
    ELSE StrLess(Tail(a), Tail(b))

\* strings.ToLower. An ASCII upper-case letter becomes its lower-case letter.
\* A byte >= 0x80 that is not part of a well-formed UTF-8 sequence becomes
\* U+FFFD (EF BF BD); the blocks of this model hold no well-formed multi-byte
\* sequence, so every byte >= 0x80 is such a byte.
RECURSIVE ToLower(_)
ToLower(str) ==
    IF str = <<>> THEN <<>>
    ELSE LET c == str[1]
             lowered == IF c >= 65 /\ c <= 90 THEN <<c + 32>>
                        ELSE IF c >= 128 THEN <<239, 191, 189>>
                        ELSE <<c>>
         IN  lowered \o ToLower(Tail(str))

IsDigit(c) == c >= 48 /\ c <= 57

\* The value of a string of decimal digits.
RECURSIVE DigitsValue(_, _)
DigitsValue(str, acc) ==
    IF str = <<>> THEN acc
    ELSE DigitsValue(Tail(str), acc * 10 + (str[1] - 48))

AllDigits(str) == \A i \in 1..Len(str) : IsDigit(str[i])

\* The longest digit string whose value the model computes; the strings of
\* the model's blocks are shorter (int64 holds 18 digits without overflow).
MaxDigits == 9

\* strconv.ParseInt(str, 10, 64): an optional sign, then one or more decimal
\* digits and nothing else.
ParseInt(str) ==
    LET signed == str # <<>> /\ str[1] \in {43, 45}
        digits == IF signed THEN Tail(str) ELSE str
    IN  IF digits = <<>> \/ ~AllDigits(digits) THEN [ok |-> FALSE, val |-> 0]
        ELSE IF Len(digits) > MaxDigits THEN [ok |-> FALSE, val |-> -1]
        ELSE [ok |-> TRUE,
              val |-> IF signed /\ str[1] = 45 THEN 0 - DigitsValue(digits, 0)
                      ELSE DigitsValue(digits, 0)]

\* A string without its trailing '0' bytes.
RECURSIVE StripZeros(_)
StripZeros(str) ==
    IF str # <<>> /\ str[Len(str)] = 48 THEN StripZeros(SubSeq(str, 1, Len(str) - 1))
    ELSE str

\* strconv.ParseFloat(str, 64) on the decimal literals without exponent: an
\* optional sign, digits with at most one '.', at least one digit. The value
\* is kept exactly, as mant / 10^scale with the sign apart. The strings of the
\* model's blocks hold no exponent, no hexadecimal literal, no underscore and
\* none of "inf", "infinity", "nan", the other forms ParseFloat accepts.
ParseFloat(str) ==
    LET signed == str # <<>> /\ str[1] \in {43, 45}
        body   == IF signed THEN Tail(str) ELSE str
        dots   == {i \in 1..Len(body) : body[i] = 46}
        dot    == IF dots = {} THEN Len(body) + 1 ELSE CHOOSE i \in dots : TRUE
        whole  == SubSeq(body, 1, dot - 1)
        frac   == StripZeros(SubSeq(body, dot + 1, Len(body)))
        bad    == [ok |-> FALSE, val |-> [neg |-> FALSE, mant |-> 0, scale |-> 0]]
    IN  IF Cardinality(dots) > 1 THEN bad
        ELSE IF Len(body) - Cardinality(dots) = 0 THEN bad
        ELSE IF ~AllDigits(whole) \/ ~AllDigits(SubSeq(body, dot + 1, Len(body))) THEN bad
        ELSE IF Len(whole) + Len(frac) > MaxDigits THEN bad
        ELSE [ok |-> TRUE,
              val |-> [neg   |-> signed /\ str[1] = 45,
                       mant  |-> DigitsValue(whole \o frac, 0),
                       scale |-> Len(frac)]]

-----------------------------------------------------------------------------
(* The value decoder. The cursor (parameter buf, a pointer to a slice) is    *)
(* always a suffix of orig, so it is carried as pos, the 0-based index into *)
(* orig of its first byte: the length of the cursor is Len(orig) - pos.     *)

errTooShort == "buffer too short"

\* A failed call that hands out the shared Null value beside the error.
FailNull(e, pos) == [err |-> e, val |-> [typ |-> 1], pos |-> pos]

\* A failed call: a nil value and the error.
Fail(e, pos) == [err |-> e, val |-> Nil, pos |-> pos]

\* readByte: the byte at the cursor, the cursor one further.
readByte(orig, pos) ==
    IF Len(orig) - pos < 1 THEN [err |-> errTooShort, x |-> 0, pos |-> pos]
    ELSE [err |-> "nil", x |-> orig[pos+1], pos |-> pos + 1]

\* A readInt that leaves the cursor where it was.
readIntPeek(orig, pos) ==
    IF Len(orig) - pos < 4 THEN [err |-> errTooShort, x |-> 0, pos |-> pos]
    ELSE [err |-> "nil", x |-> Int32At(orig, pos), pos |-> pos]

\* readInt: the little-endian int32 at the cursor, the cursor four further.
readInt(orig, pos) ==
    IF Len(orig) - pos < 4 THEN [err |-> errTooShort, x |-> 0, pos |-> pos]
    ELSE [err |-> "nil", x |-> Int32At(orig, pos), pos |-> pos + 4]

\* A scan that stops one byte late, behind the zero byte.
RECURSIVE ScanPastZero(_, _)
ScanPastZero(b, i) ==
    IF Len(b) > i THEN (IF b[i+1] # 0 THEN ScanPastZero(b, i + 1) ELSE i + 1) ELSE i

\* The scan of readString: the first 0-based index at or after i that holds a
\* zero byte, or Len(b) when there is none.
RECURSIVE ScanZero(_, _)
ScanZero(b, i) ==
    IF Len(b) > i /\ b[i+1] # 0 THEN ScanZero(b, i + 1) ELSE i

\* Reader.readString(buf, offset) with r.offsets = offs.
readString(b, offs, offset) ==
    IF offset < 0 \/ offset >= Len(offs)
    THEN [err |-> "invalid offset index", str |-> <<>>]
    ELSE LET ofs == offs[offset + 1]
         IN  IF ofs < 0 \/ ofs >= Len(b)
             THEN [err |-> "invalid offset", str |-> <<>>]
             ELSE [err |-> "nil", str |-> SubSeq(b, ofs + 1, ScanZero(b, ofs))]

\* sort.Slice(value.hash, Key < Key). For the up to six entries a hash of
\* this model holds, sort.Slice is an insertion sort: each entry in turn moves
\* left past the entries whose key is greater.
RECURSIVE InsertSorted(_, _)
InsertSorted(sorted, e) ==
    IF sorted # <<>> /\ StrLess(e.Key, sorted[Len(sorted)].Key)
    THEN Append(InsertSorted(SubSeq(sorted, 1, Len(sorted) - 1), e),
                sorted[Len(sorted)])
    ELSE Append(sorted, e)

RECURSIVE SortEntries(_)
SortEntries(es) ==
    IF es = <<>> THEN <<>>
    ELSE InsertSorted(SortEntries(SubSeq(es, 1, Len(es) - 1)), es[Len(es)])

\* A terminator check that lets every tag pass.
TerminatorAny(t, typ) == TRUE

\* A terminator check that expects the tag of a hash behind an array too.
TerminatorHash(t, typ) == t = HashType

\* The tag after the last entry of a hash or array is the container's own:
\* ValueType(t) != HashType and ValueType(t) != ArrayType, negated.
TerminatorOK(t, typ) == t = typ

\* A sort that leaves the entries in decode order.
SortEntriesNone(es) == es

\* sort.Slice(value.hash, ...) of readHash.
SortedHash(es) == SortEntries(es)

RECURSIVE readHash(_, _, _)
RECURSIVE readValue(_, _, _)
RECURSIVE HashLoop(_, _, _, _, _, _)
RECURSIVE ArrayLoop(_, _, _, _, _, _)

\* The entry loop of readHash from entry i on: for each entry an offset-table
\* index, the key it resolves to, and a value. val is the entries collected,
\* in decode order.
HashLoop(orig, offs, pos, i, numEntries, acc) ==
    IF ~(i < numEntries) THEN [err |-> "nil", val |-> acc, pos |-> pos]
    ELSE LET offset == readInt(orig, pos)
         IN  IF offset.err # "nil" THEN Fail(offset.err, offset.pos)
             ELSE LET key == readString(orig, offs, offset.x)
                  IN  IF key.err # "nil" THEN Fail(key.err, offset.pos)
                      ELSE LET entry == readValue(orig, offs, offset.pos)
                           IN  IF entry.err # "nil" THEN Fail(entry.err, entry.pos)
                               ELSE HashLoop(orig, offs, entry.pos, i + 1, numEntries,
                                             Append(acc, [Key |-> key.str,
                                                          Value |-> entry.val]))

\* Reader.readHash(buf, orig) with r.offsets = offs and the cursor at pos.
readHash(orig, offs, pos) ==
    LET t == readByte(orig, pos)
    IN  IF t.err # "nil" THEN Fail(t.err, t.pos)
        ELSE IF t.x # HashType THEN Fail("trying to parse non-hash", t.pos)
        ELSE LET numEntries == readInt(orig, t.pos)
             IN  IF numEntries.err # "nil" THEN Fail(numEntries.err, numEntries.pos)
                 ELSE IF numEntries.x = 0 THEN Fail(errTooShort, numEntries.pos)
                 \* make(HashEntries, 0, numEntries) panics on a negative capacity
                 ELSE IF numEntries.x < 0 THEN Fail("panic", numEntries.pos)
                 ELSE LET loop == HashLoop(orig, offs, numEntries.pos, 0,
                                           numEntries.x, <<>>)
                      IN  IF loop.err # "nil" THEN Fail(loop.err, loop.pos)
                          ELSE LET term == readByte(orig, loop.pos)
                               IN  IF term.err # "nil" THEN Fail(term.err, term.pos)
                                   ELSE IF ~TerminatorOK(term.x, HashType)
                                   THEN Fail("unterminated hash", term.pos)
                                   ELSE [err |-> "nil",
                                         val |-> [typ  |-> HashType,
                                                  hash |-> SortedHash(loop.val)],
                                         pos |-> term.pos]

\* An element loop that puts each element in front of those before it.
RECURSIVE ArrayLoopPrepend(_, _, _, _, _, _)
ArrayLoopPrepend(orig, offs, pos, i, numEntries, acc) ==
    IF ~(i < numEntries) THEN [err |-> "nil", val |-> acc, pos |-> pos]
    ELSE LET value == readValue(orig, offs, pos)
         IN  IF value.err # "nil" THEN Fail(value.err, value.pos)
             ELSE ArrayLoopPrepend(orig, offs, value.pos, i + 1, numEntries,
                                   <<value.val>> \o acc)

\* The element loop of the ArrayType case of readValue from element i on.
ArrayLoop(orig, offs, pos, i, numEntries, acc) ==
    IF ~(i < numEntries) THEN [err |-> "nil", val |-> acc, pos |-> pos]
    ELSE LET value == readValue(orig, offs, pos)
         IN  IF value.err # "nil" THEN Fail(value.err, value.pos)
             ELSE ArrayLoop(orig, offs, value.pos, i + 1, numEntries,
                            Append(acc, value.val))

\* Reader.readValue(buf, orig) with r.offsets = offs and the cursor at pos.
readValue(orig, offs, pos) ==
    IF Len(orig) - pos < 1 THEN Fail(errTooShort, pos)
    ELSE LET typ == orig[pos+1]
         IN  CASE typ = NullType -> [err |-> "nil", val |-> Null, pos |-> pos + 1]
               [] typ = HashType -> readHash(orig, offs, pos)
               [] typ = ArrayType ->
                    LET numEntries == readInt(orig, pos + 1)
                    IN  IF numEntries.err # "nil"
                        THEN Fail(numEntries.err, numEntries.pos)
                        \* make([]*Value, 0, numEntries) panics on a negative capacity
                        ELSE IF numEntries.x < 0 THEN Fail("panic", numEntries.pos)
                        ELSE LET loop == ArrayLoop(orig, offs, numEntries.pos, 0,
                                                   numEntries.x, <<>>)
                             IN  IF loop.err # "nil" THEN Fail(loop.err, loop.pos)
                                 ELSE LET t == readByte(orig, loop.pos)
                                      IN  IF t.err # "nil" THEN Fail(t.err, t.pos)
                                          ELSE IF ~TerminatorOK(t.x, ArrayType)
                                          THEN Fail("unterminated array", t.pos)
                                          ELSE [err |-> "nil",
                                                val |-> [typ   |-> ArrayType,
                                                         array |-> loop.val],
                                                pos |-> t.pos]
               [] typ = StringType ->
                    LET ofs == readInt(orig, pos + 1)
                    IN  IF ofs.err # "nil" THEN Fail(ofs.err, ofs.pos)
                        ELSE LET str == readString(orig, offs, ofs.x)
                             IN  IF str.err # "nil" THEN Fail(str.err, ofs.pos)
                                 ELSE [err |-> "nil",
                                       val |-> [typ |-> StringType, str |-> str.str],
                                       pos |-> ofs.pos]
               [] typ \in {DoubleType, IntegerType} ->
                    LET ofs == readInt(orig, pos + 1)
                    IN  IF ofs.err # "nil" THEN Fail(ofs.err, ofs.pos)
                        ELSE LET num == readString(orig, offs, ofs.x)
                             IN  IF num.err # "nil" THEN Fail(num.err, ofs.pos)
                                 ELSE IF typ = IntegerType
                                 THEN LET n == ParseInt(num.str)
                                      IN  IF ~n.ok THEN Fail("invalid integer", ofs.pos)
                                          ELSE [err |-> "nil",
                                                val |-> [typ |-> IntegerType,
                                                         integer |-> n.val],
                                                pos |-> ofs.pos]
                                 ELSE LET d == ParseFloat(num.str)
                                      IN  IF ~d.ok THEN Fail("invalid double", ofs.pos)
                                          ELSE [err |-> "nil",
                                                val |-> [typ |-> DoubleType,
                                                         double |-> d.val],
                                                pos |-> ofs.pos]
               [] OTHER -> Fail("unsupported value", pos)

-----------------------------------------------------------------------------
(* The offset table reader *)

\* A sentinel test that never stops the loop.
IsSentinelNever(offset) == FALSE

\* offset == 0xffffffff
IsSentinel(offset) == offset = -1

\* The loop of readOffsets from 0-based position pos on:
\*   for pos := plo + 1; int(pos+4) < len(buf); pos += 4
RECURSIVE OffsetsLoop(_, _, _)
OffsetsLoop(b, pos, acc) ==
    IF ~(pos + 4 < Len(b)) THEN acc
    ELSE LET offset == Int32At(b, pos)
         IN  IF IsSentinel(offset) THEN acc
             ELSE OffsetsLoop(b, pos + 4, Append(acc, offset))

\* Reader.readOffsets(buf): the error and r.offsets afterwards, old being
\* r.offsets before. plo is a uint32 carried as an int32: a negative plo
\* stands for a value of 2^31 or more, which is not below 12 and, int being
\* 64 bits wide, is at least len(buf)-4.
readOffsets(b, old) ==
    IF Len(b) < 12 THEN [err |-> errTooShort, offsets |-> old]
    ELSE LET plo == Int32At(b, 8)
         IN  IF (plo >= 0 /\ plo < 12) \/ plo < 0 \/ plo >= Len(b) - 4
             THEN [err |-> "ggpack plo out of range", offsets |-> old]
             ELSE IF b[plo+1] # 7
             THEN [err |-> "ggpack cannot find plo", offsets |-> old]
             ELSE [err |-> "nil", offsets |-> OffsetsLoop(b, plo + 1, <<>>)]

-----------------------------------------------------------------------------
(* Lookup *)

\* sort.Search(n, f): the binary search of the standard library, over [i, j).
RECURSIVE Search(_, _, _, _)
Search(hash, name, i, j) ==
    IF ~(i < j) THEN i
    ELSE LET h == (i + j) \div 2
         IN  IF StrLess(hash[h+1].Key, name) THEN Search(hash, name, h + 1, j)
             ELSE Search(hash, name, i, h)

\* Value.Find(name): the value found, or Nil.
Find(v, name) ==
    IF v = Nil \/ v.typ # HashType THEN Nil
    ELSE LET idx == Search(v.hash, name, 0, Len(v.hash))
         IN  IF idx < Len(v.hash) /\ name = ToLower(v.hash[idx+1].Key)
             THEN v.hash[idx+1].Value
             ELSE Nil

-----------------------------------------------------------------------------
(* The environment: directory blocks as the game's packer writes them.      *)
(* None of this is code of the reader; it builds the reader's inputs.       *)

\* The four bytes of a 32-bit integer, little-endian, two's complement.
LE32(n) == << n % 256, (n \div 256) % 256, (n \div 65536) % 256,
              (n \div 16777216) % 256 >>

\* The string pool of the sample blocks: "a", "B", "b", "42", "hi", "3.5".
Pool == << <<97>>, <<66>>, <<98>>, <<52, 50>>, <<104, 105>>, <<51, 46, 53>> >>

PoolIdx == [a |-> 0, B |-> 1, b |-> 2, n42 |-> 3, hi |-> 4, n35 |-> 5]
kA  == PoolIdx.a
kB  == PoolIdx.B
kb  == PoolIdx.b
s42 == PoolIdx.n42
sHi == PoolIdx.hi
s35 == PoolIdx.n35

\* Wire trees: a leaf names its pool string by index, a hash entry its key.
WNull      == [t |-> NullType]
WStr(i)    == [t |-> StringType, idx |-> i]
WInt(i)    == [t |-> IntegerType, idx |-> i]
WDbl(i)    == [t |-> DoubleType, idx |-> i]
WArr(vs)   == [t |-> ArrayType, vs |-> vs]
WHash(es)  == [t |-> HashType, es |-> es]
WEntry(k, v) == [k |-> k, v |-> v]

\* The sample directories; each root is a hash.
Trees ==
    << WHash(<< WEntry(kA, WInt(s42)), WEntry(kb, WStr(sHi)) >>),
       WHash(<< WEntry(kb, WNull), WEntry(kA, WDbl(s35)) >>),
       WHash(<< WEntry(kb, WStr(sHi)), WEntry(kB, WInt(s42)), WEntry(kA, WNull) >>),
       WHash(<< WEntry(kA, WInt(s42)), WEntry(kA, WStr(sHi)) >>),
       WHash(<< WEntry(kB, WArr(<< WNull, WInt(s42), WStr(sHi) >>)) >>),
       WHash(<< WEntry(kb, WHash(<< WEntry(kB, WNull), WEntry(kA, WArr(<<>>)) >>)) >>) >>

RECURSIVE Wire(_)
RECURSIVE WireSeq(_)
RECURSIVE WireEntries(_)

\* The wire bytes of a tree.
Wire(w) ==
    CASE w.t = NullType  -> <<NullType>>
      [] w.t = HashType  -> <<HashType>> \o LE32(Len(w.es)) \o WireEntries(w.es)
                              \o <<HashType>>
      [] w.t = ArrayType -> <<ArrayType>> \o LE32(Len(w.vs)) \o WireSeq(w.vs)
                              \o <<ArrayType>>
      [] OTHER           -> <<w.t>> \o LE32(w.idx)

WireSeq(vs) == IF vs = <<>> THEN <<>> ELSE Wire(vs[1]) \o WireSeq(Tail(vs))

WireEntries(es) ==
    IF es = <<>> THEN <<>>
    ELSE LE32(es[1].k) \o Wire(es[1].v) \o WireEntries(Tail(es))

\* The pool strings from string i on, each with its terminating zero byte.
RECURSIVE PoolBytes(_)
PoolBytes(i) == IF i > Len(Pool) THEN <<>> ELSE Pool[i] \o <<0>> \o PoolBytes(i + 1)

\* The offsets of the pool strings from string i on, the first one at ofs.
RECURSIVE PoolOffsets(_, _)
PoolOffsets(i, ofs) ==
    IF i > Len(Pool) THEN <<>>
    ELSE LE32(ofs) \o PoolOffsets(i + 1, ofs + Len(Pool[i]) + 1)

\* A plain directory block: the signature, four unused bytes, the position of
\* the offset table, the tree, then the marker 7, the offset table with its
\* sentinel, and the strings.
Block(w) ==
    LET tree == Wire(w)
        plo  == 12 + Len(tree)
        strs == plo + 1 + 4 * Len(Pool) + 4
    IN  <<1, 2, 3, 4>> \o <<0, 0, 0, 0>> \o LE32(plo) \o tree \o <<7>>
          \o PoolOffsets(1, strs) \o LE32(-1) \o PoolBytes(1)

\* The packer's cipher, the inverse of DecodeXOR: the buffer that DecodeXOR
\* with method m turns into plain.
RECURSIVE Unroll(_, _, _, _)
Unroll(b, i, prev, code) ==
    IF i >= Len(b) THEN b
    ELSE LET x == Xor(b[i+1], prev)
         IN  Unroll([b EXCEPT ![i+1] = Xor(Xor(x, magicBytes[(i % 16) + 1]),
                                           (i * code) % 256)],
                    i + 1, x, code)

Obfuscate(plain, m) ==
    Unroll(IF m # 0 THEN PairPass(plain, 5) ELSE plain, 0, Len(plain) % 256, Code(m))

\* A container file: the header, pad bytes, the obfuscated directory.
Container(offset, size, pad, dir) ==
    LE32(offset) \o LE32(size) \o [i \in 1..pad |-> 170] \o dir

\* Buffers handed to DecodeXOR by a caller, up to MaxBufLen bytes long.
MaxBufLen == 40

\* Fill patterns: byte i of the buffer is (seed + i * step) mod 256.
FillSeeds == {0, 78, 255}
FillSteps == {0, 1, 37}

Fill(seed, step, n) == [i \in 1..n |-> (seed + (i - 1) * step) % 256]

Buffers == { Fill(seed, step, n) : seed \in FillSeeds, step \in FillSteps,
                                   n \in 0..MaxBufLen }

\* A block cut to its first k bytes, and a block with byte p (0-based) set to v.
Cut(b, k) == SubSeq(b, 1, k)
Poke(b, p, v) == [b EXCEPT ![p+1] = v]

\* The values poked into a block: tags, small counts, and 0xff, which makes a
\* count or an index negative and an offset the sentinel.
PokeValues == {0, 2, 3, 255}

\* Pad bytes between the header and the directory.
MaxPad == 1

\* The sample blocks, and where the strings of a block begin.
Blocks == [t \in 1..Len(Trees) |-> Block(Trees[t])]
StringsAt(t) == Len(Blocks[t]) - Len(PoolBytes(1))

\* A well-formed container: sample directory t under method m.
GoodStream(t, m, pad) ==
    Container(8 + pad, Len(Blocks[t]), pad, Obfuscate(Blocks[t], m))

\* Containers whose plain directory was cut to k bytes, or had byte p set to
\* v, before it was obfuscated.
CutStream(t, m, k) == Container(8, k, 0, Obfuscate(Cut(Blocks[t], k), m))
PokedStream(t, m, p, v) ==
    Container(8, Len(Blocks[t]), 0, Obfuscate(Poke(Blocks[t], p, v), m))

\* The sample directories that are cut, and those that are poked: the bytes
\* of the signature, and those from the table position to the sentinel.
CutTrees      == {2, 3, 6}
PokedTrees    == {1, 5, 6}
PokedBytes(t) == (0..3) \cup (8..(StringsAt(t) - 1))

\* Containers with a bad header: a negative or too large size, a negative
\* offset, a size below 4, and files that end inside the header.
HeaderStreams ==
    LET dir == Obfuscate(Blocks[1], 3)
    IN  { Container(8, size, 0, dir) : size \in {-1, -2147483647 - 1, Len(dir) + 1} }
          \cup { Container(-1, Len(dir), 0, dir), Container(8 + Len(dir), 4, 0, dir) }
          \cup { Cut(Container(8, Len(dir), 0, dir), k) : k \in 0..8 }

\* Directories whose counts promise more entries than the block holds. The
\* table position points at the low byte of a count of 7, the offset table is
\* read out of the bytes behind it, and the key and string indexes used are
\* the ones whose table entry is a position inside the block. ShortArray is
\* a root of one entry, an array of 7 that holds a string and a null;
\* ShortHash a root of 7 entries of which two are there and of the third
\* only the key.
ShortArray ==
    <<1, 2, 3, 4, 0, 0, 0, 0>> \o LE32(22) \o <<HashType>> \o LE32(1) \o LE32(1)
        \o <<ArrayType>> \o LE32(7) \o <<StringType>> \o LE32(1) \o <<NullType>>
ShortHash ==
    <<1, 2, 3, 4, 0, 0, 0, 0>> \o LE32(13) \o <<HashType>> \o LE32(7)
        \o LE32(2) \o <<NullType>> \o LE32(2) \o <<NullType>> \o LE32(2)
ShortStreams ==
    { Container(8, Len(d), 0, Obfuscate(d, m)) :
        d \in {ShortArray, ShortHash, Cut(ShortHash, Len(ShortHash) - 2)},
        m \in {2, 3} }

\* The files a Reader is pointed at for a further ReadPack.
ReopenStreams ==
    { GoodStream(2, 2, 0), GoodStream(5, 0, 0),
      PokedStream(1, 3, 0, 0), PokedStream(1, 3, 35, 3), PokedStream(1, 3, 36, 0),
      Container(8, -1, 0, <<>>),
      <<8, 0>> }

\* The names looked up in the decoded directory: "a", "A", "b", "B", "c".
Names == { <<97>>, <<65>>, <<98>>, <<66>>, <<99>> }

-----------------------------------------------------------------------------
(* Reader.ReadPack, one action per stretch of it *)

MaxCalls == 2

\* binary.Read of the two header fields from a file of n bytes.
HeaderErr(n) ==
    IF n = 0 \/ n = 4 THEN "EOF"
    ELSE IF n < 8 THEN "unexpected EOF"
    ELSE "nil"

\* A probe that seeks and reads for its first attempt only: a later attempt
\* finds in the buffer what the attempt before it left there.
SeekReadOnce(file, offset, size) ==
    IF tried # <<>> THEN [err |-> "nil", data |-> buf]
    ELSE IF offset < 0 THEN [err |-> "seek: negative position", data |-> <<>>]
    ELSE IF size = 0 THEN [err |-> "nil", data |-> <<>>]
    ELSE IF offset >= Len(file) THEN [err |-> "EOF", data |-> <<>>]
    ELSE IF offset + size > Len(file) THEN [err |-> "unexpected EOF", data |-> <<>>]
    ELSE [err |-> "nil", data |-> SubSeq(file, offset + 1, offset + size)]

\* r.Reader.Seek(offset, io.SeekStart) followed by io.ReadFull into a buffer
\* of size bytes: the error, and the bytes read when there is none.
SeekRead(file, offset, size) ==
    IF offset < 0 THEN [err |-> "seek: negative position", data |-> <<>>]
    ELSE IF size = 0 THEN [err |-> "nil", data |-> <<>>]
    ELSE IF offset >= Len(file) THEN [err |-> "EOF", data |-> <<>>]
    ELSE IF offset + size > Len(file) THEN [err |-> "unexpected EOF", data |-> <<>>]
    ELSE [err |-> "nil", data |-> SubSeq(file, offset + 1, offset + size)]

\* sign == 0x04030201
Signature == 67305985

HasSignature(b) == Int32At(b, 0) = Signature

\* A probe loop that skips every other method.
NextMethodSkip(m) == m - 2

\* r.method-- of the probe loop.
NextMethod(m) == m - 1

\* ReadPack returns e by the return statement named where.
Return(e, where) ==
    /\ pc' = "done"
    /\ err' = e
    /\ ret' = where

\* ReadPack up to the probe loop: the header, make([]byte, size), r.method = 3.
Begin ==
    /\ pc = "idle"
    /\ calls' = calls + 1
    /\ tried' = <<>>
    /\ UNCHANGED <<stream, origin, offsets, entries, xorig, xbuf, napplied, query, found>>
    /\ IF HeaderErr(Len(stream)) # "nil"
       THEN /\ Return(HeaderErr(Len(stream)), "header")
            /\ UNCHANGED <<method, hdr, buf>>
       ELSE LET offset == Int32At(stream, 0)
                size   == Int32At(stream, 4)
            IN  /\ hdr' = [offset |-> offset, size |-> size]
                /\ IF size < 0
                   THEN \* make([]byte, size) panics
                        /\ Return("panic", "make")
                        /\ UNCHANGED <<method, buf>>
                   ELSE /\ buf' = [i \in 1..size |-> 0]
                        /\ method' = 3
                        /\ pc' = "probe"
                        /\ UNCHANGED <<err, ret>>

\* One round of the probe loop: seek, read, decipher, compare.
Probe ==
    /\ pc = "probe"
    /\ UNCHANGED <<stream, origin, offsets, entries, hdr, calls, xorig, xbuf, napplied,
                   query, found>>
    /\ LET rd == SeekRead(stream, hdr.offset, hdr.size)
       IN  IF rd.err # "nil"
           THEN /\ Return(rd.err, "io")
                /\ UNCHANGED <<method, buf, tried>>
           ELSE /\ buf' = DecodeXOR(rd.data, method)
                /\ tried' = Append(tried, method)
                /\ IF Len(buf') < 4
                   THEN /\ Return(errTooShort, "short")
                        /\ UNCHANGED method
                   ELSE IF HasSignature(buf')
                   THEN /\ pc' = "supported"
                        /\ UNCHANGED <<method, err, ret>>
                   ELSE IF NextMethod(method) >= 0
                   THEN /\ method' = NextMethod(method)
                        /\ UNCHANGED <<pc, err, ret>>
                   ELSE /\ method' = NextMethod(method)
                        /\ Return("unsuported package version", "unsupported")

\* ReadPack from the label supported on: the offset table, the tree.
Decode ==
    /\ pc = "supported"
    /\ UNCHANGED <<stream, origin, method, hdr, buf, tried, calls, xorig, xbuf, napplied,
                   query, found>>
    /\ LET ofs == readOffsets(buf, offsets)
       IN  IF ofs.err # "nil"
           THEN /\ Return(ofs.err, "offsets")
                /\ UNCHANGED <<offsets, entries>>
           ELSE /\ offsets' = ofs.offsets
                /\ LET h == readHash(buf, ofs.offsets, 12)
                   IN  IF h.err # "nil"
                       THEN /\ Return(h.err, "hash")
                            /\ UNCHANGED entries
                       ELSE /\ entries' = h.val
                            /\ Return("nil", "ok")

\* The caller points the Reader at another file.
Open ==
    /\ pc = "done"
    /\ calls < MaxCalls
    /\ stream' \in ReopenStreams
    /\ origin' = [kind |-> "reopened", m |-> -1, tree |-> 0]
    /\ pc' = "idle"
    /\ hdr' = [offset |-> 0, size |-> 0]
    /\ buf' = <<>>
    /\ err' = "nil"
    /\ ret' = ""
    /\ tried' = <<>>
    /\ xorig' = <<>>
    /\ xbuf' = <<>>
    /\ napplied' = 0
    /\ query' = <<>>
    /\ found' = Nil
    /\ UNCHANGED <<method, offsets, entries, calls>>

\* The caller looks a name up: r.Entries().Find(name).
Lookup ==
    /\ pc = "done"
    /\ err = "nil"
    /\ query = <<>>
    /\ napplied = 0
    /\ \E name \in Names :
         /\ query' = name
         /\ found' = Find(entries, name)
    /\ UNCHANGED <<stream, origin, method, offsets, entries, pc, hdr, buf, err, ret, tried,
                   calls, xorig, xbuf, napplied>>

\* The payloads a caller deciphers after a successful ReadPack.
Payloads == { Obfuscate(Fill(65, 1, n), m) : n \in {7, 23}, m \in {0, 3} }

\* The caller deciphers a file's payload in place: r.DecodeXOR(buf).
Payload ==
    /\ pc = "done"
    /\ err = "nil"
    /\ query = <<>>
    /\ napplied = 0
    /\ xorig' \in Payloads
    /\ xbuf' = DecodeXOR(xorig', method)
    /\ napplied' = 1
    /\ UNCHANGED <<stream, origin, method, offsets, entries, pc, hdr, buf, err, ret, tried,
                   calls, query, found>>

\* A fresh Reader (the zero value but for the field Reader).
Fresh ==
    /\ method = 0
    /\ offsets = <<>>
    /\ entries = Nil
    /\ pc = "idle"
    /\ hdr = [offset |-> 0, size |-> 0]
    /\ buf = <<>>
    /\ err = "nil"
    /\ ret = ""
    /\ tried = <<>>
    /\ calls = 0
    /\ xorig = <<>>
    /\ xbuf = <<>>
    /\ napplied = 0
    /\ query = <<>>
    /\ found = Nil

Init ==
    /\ \/ \E t \in 1..Len(Trees), m \in 0..3, pad \in 0..MaxPad :
            /\ stream = GoodStream(t, m, pad)
            /\ origin = [kind |-> "good", m |-> m, tree |-> t]
       \/ \E t \in CutTrees : \E k \in 0..(Len(Blocks[t]) - 1) :
            /\ stream = CutStream(t, 2 + (k % 2), k)
            /\ origin = [kind |-> "cut", m |-> 2 + (k % 2), tree |-> t]
       \/ \E t \in PokedTrees : \E p \in PokedBytes(t), v \in PokeValues :
            /\ stream = PokedStream(t, 2 + (p % 2), p, v)
            /\ origin = [kind |-> "poked", m |-> 2 + (p % 2), tree |-> t]
       \/ /\ stream \in HeaderStreams
          /\ origin = [kind |-> "header", m |-> 3, tree |-> 1]
       \/ /\ stream \in ShortStreams
          /\ origin = [kind |-> "short", m |-> 3, tree |-> 0]
    /\ Fresh

Next == Begin \/ Probe \/ Decode \/ Lookup \/ Payload

\* One ReadPack on a fresh Reader, and the caller's use of the result.
Spec == Init /\ [][Next]_vars

\* A Reader used for several files in turn.
InitReuse ==
    /\ stream \in ReopenStreams
    /\ origin = [kind |-> "reopened", m |-> -1, tree |-> 0]
    /\ Fresh

NextReuse == Begin \/ Probe \/ Decode \/ Open

SpecReuse == InitReuse /\ [][NextReuse]_vars

-----------------------------------------------------------------------------
(* The cipher applied by a caller to a buffer of its own *)

\* A Reader whose method field is m (0..3), and a caller's buffer.
InitXOR ==
    /\ stream = <<>>
    /\ origin = [kind |-> "none", m |-> -1, tree |-> 0]
    /\ method \in 0..3
    /\ offsets = <<>>
    /\ entries = Nil
    /\ pc = "idle"
    /\ hdr = [offset |-> 0, size |-> 0]
    /\ buf = <<>>
    /\ err = "nil"
    /\ ret = ""
    /\ tried = <<>>
    /\ calls = 0
    /\ xorig \in Buffers
    /\ xbuf = xorig
    /\ napplied = 0
    /\ query = <<>>
    /\ found = Nil

\* r.DecodeXOR(xbuf), at most twice in a row.
ApplyXOR ==
    /\ napplied < 2
    /\ xbuf' = DecodeXOR(xbuf, method)
    /\ napplied' = napplied + 1
    /\ UNCHANGED <<stream, origin, method, offsets, entries, pc, hdr, buf, err, ret,
                   tried, calls, xorig, query, found>>

NextXOR == ApplyXOR

SpecXOR == InitXOR /\ [][NextXOR]_vars

-----------------------------------------------------------------------------
(* Claims about the cipher *)

\* C1 as stated: for every method 0..3 and every buffer, DecodeXOR applied
\* twice with the same method gives back the original buffer.
C1_Involution == napplied = 2 => xbuf = xorig

\* C1 amended: DecodeXOR applied twice with the same method gives back the
\* original buffer when the buffer has at most one byte, and always gives
\* back the first byte; longer buffers are in general not restored.
C1_TwiceRestoresFirstByte ==
    napplied = 2 =>
        /\ Len(xbuf) = Len(xorig)
        /\ (Len(xorig) <= 1 => xbuf = xorig)
        /\ (Len(xorig) >= 1 => xbuf[1] = xorig[1])

\* C1 witness: a buffer that crosses two 16-byte strides was deciphered
\* twice with a method that runs the pair pass; its first byte is back and
\* the buffer as a whole is not.
C1_Witness ==
    /\ napplied = 2
    /\ method = 3
    /\ Len(xorig) > 22
    /\ xbuf[1] = xorig[1]
    /\ xbuf # xorig

-----------------------------------------------------------------------------
(* Claims about the method probe *)

\* The directory block the header of the file names, when the file holds it.
Readable ==
    /\ HeaderErr(Len(stream)) = "nil"
    /\ Int32At(stream, 4) >= 0
    /\ SeekRead(stream, Int32At(stream, 0), Int32At(stream, 4)).err = "nil"

Directory == SeekRead(stream, Int32At(stream, 0), Int32At(stream, 4)).data

\* Method m yields the signature: the directory deciphered with m begins
\* with the four bytes of 0x04030201.
Yields(m) ==
    /\ Readable
    /\ Len(Directory) >= 4
    /\ HasSignature(DecodeXOR(Directory, m))

Yielding == { m \in 0..3 : Yields(m) }

Largest(S) == CHOOSE m \in S : \A k \in S : k <= m

\* The methods from 3 down to m.
Descending(m) == [i \in 1..(4 - m) |-> 4 - i]

Unsupported == "unsuported package version"

\* ReadPack has passed the label supported.
PastProbe == pc = "supported" \/ (pc = "done" /\ ret \in {"offsets", "hash", "ok"})

\* C2: for every method m, ReadPack on a well-formed container whose
\* directory was obfuscated with m succeeds and retains exactly m.
C2_RetainsPackerMethod ==
    (pc = "done" /\ origin.kind = "good") => (err = "nil" /\ method = origin.m)

\* The order of the probe and the method it retains, y being the set of
\* methods that yield the signature: the methods are tried in the order 3, 2,
\* 1, 0; once past the probe, the retained method is the largest one that
\* yields the signature and no lower one was tried; a later DecodeXOR of a
\* payload uses that method.
ProbeOrder(y) ==
    /\ \E m \in -1..3 : tried = Descending(m + 1)
    /\ PastProbe => /\ y # {}
                    /\ method = Largest(y)
                    /\ tried = Descending(method)
    /\ napplied = 1 /\ pc = "done" => xbuf = DecodeXOR(xorig, method)

\* C3 as stated: the probe order holds, and ReadPack, given a directory
\* block it can read, fails with the unsupported-version error exactly when
\* none of the four methods yields the signature.
C3_UnsupportedIffNoneYields ==
    LET y == Yielding
    IN  /\ ProbeOrder(y)
        /\ (pc = "done" /\ Readable) => (err = Unsupported <=> y = {})

\* C3 amended: the probe order holds, and ReadPack fails with the
\* unsupported-version error exactly when the directory block could be read
\* in full, has at least four bytes, and none of the four methods yields the
\* signature; then all four methods were tried. A block of fewer than four
\* bytes fails with "buffer too short" after the first attempt.
C3_UnsupportedIffReadableNoneYields ==
    LET y == Yielding
    IN  /\ ProbeOrder(y)
        /\ pc = "done" =>
             /\ err = Unsupported <=> (Readable /\ Len(Directory) >= 4 /\ y = {})
             /\ err = Unsupported => tried = <<3, 2, 1, 0>> /\ ret = "unsupported"
             /\ (Readable /\ Len(Directory) < 4) =>
                    (err = errTooShort /\ ret = "short" /\ tried = <<3>>)

\* C3 witness: method 3 did not yield the signature, method 2 did and was
\* retained, methods 1 and 0 were not tried, and a payload was deciphered
\* with method 2.
C3_Witness ==
    /\ pc = "done"
    /\ ret = "ok"
    /\ tried = <<3, 2>>
    /\ method = 2
    /\ napplied = 1
    /\ xbuf = DecodeXOR(xorig, 2)
    /\ xbuf # DecodeXOR(xorig, 3)


-----------------------------------------------------------------------------
(* Find *)

\* The decoded root is a hash that stores a key equal to the name looked up
\* once both are lower-cased.
StoredAs(name) ==
    { i \in 1..Len(entries.hash) : ToLower(entries.hash[i].Key) = ToLower(name) }

\* C4: Find is case-insensitive: for a decoded hash, a stored key and a search
\* name whose lower-cased forms are equal, Find returns the value of an entry
\* with such a key, not not-found.
C4_FindCaseInsensitive ==
    (pc = "done" /\ err = "nil" /\ query # <<>> /\ StoredAs(query) # {})
        => /\ found # Nil
           /\ \E i \in StoredAs(query) : found = entries.hash[i].Value

-----------------------------------------------------------------------------
(* The tree decoder over the deciphered directory *)

\* ReadPack got as far as the tree: buf is the deciphered directory and
\* r.offsets the table read from it.
TreeRead == pc = "done" /\ ret \in {"hash", "ok"}

RECURSIVE ContainersAt(_, _, _)
RECURSIVE ContainersIn(_, _, _, _, _, _)

\* The positions at which the decode that starts at pos enters a hash or an
\* array, nested ones included, up to the point where it fails.
ContainersAt(orig, offs, pos) ==
    IF Len(orig) - pos < 1 \/ orig[pos+1] \notin {HashType, ArrayType} THEN {}
    ELSE LET typ == orig[pos+1]
             n   == readInt(orig, pos + 1)
         IN  IF n.err # "nil" \/ n.x < 0 \/ (typ = HashType /\ n.x = 0) THEN {pos}
             ELSE {pos} \cup ContainersIn(orig, offs, n.pos, 0, n.x, typ)

\* Those entered by entry i and the entries after it of a container of type
\* typ whose entry i begins at pos.
ContainersIn(orig, offs, pos, i, n, typ) ==
    IF ~(i < n) THEN {}
    ELSE LET at == IF typ = ArrayType THEN pos
                   ELSE LET offset == readInt(orig, pos)
                        IN  IF offset.err # "nil" THEN -1
                            ELSE IF readString(orig, offs, offset.x).err # "nil" THEN -1
                            ELSE offset.pos
         IN  IF at < 0 THEN {}
             ELSE LET v == readValue(orig, offs, at)
                  IN  ContainersAt(orig, offs, at)
                        \cup IF v.err # "nil" THEN {}
                             ELSE ContainersIn(orig, offs, v.pos, i + 1, n, typ)

\* The containers the decode of the root enters; readHash enters none when
\* the root's tag is not that of a hash.
Entered ==
    IF Len(buf) > 12 /\ buf[13] = HashType THEN ContainersAt(buf, offsets, 12)
    ELSE {}

\* The declared count of the container at p, and the run of its entry loop.
CountAt(p) == readInt(buf, p + 1)
Counted(p) ==
    /\ CountAt(p).err = "nil"
    /\ IF buf[p+1] = HashType THEN CountAt(p).x > 0 ELSE CountAt(p).x >= 0
LoopAt(p) ==
    IF buf[p+1] = HashType
    THEN HashLoop(buf, offsets, p + 5, 0, CountAt(p).x, <<>>)
    ELSE ArrayLoop(buf, offsets, p + 5, 0, CountAt(p).x, <<>>)

\* The byte behind the last entry of the container at p is there and is the
\* container's own tag.
Terminated(p) ==
    /\ LoopAt(p).pos < Len(buf)
    /\ buf[LoopAt(p).pos + 1] = buf[p+1]

\* C5: a hash or array is returned only if the byte right behind its last
\* declared entry is its own tag, and that byte is consumed; when the byte is
\* absent or different the container fails and so does the decode of the
\* whole tree. At every nesting level.
C5_TerminatorConsumed ==
    TreeRead =>
        \A p \in Entered :
            LET r == readValue(buf, offsets, p)
            IN  /\ r.err = "nil" =>
                     /\ Counted(p)
                     /\ LoopAt(p).err = "nil"
                     /\ Terminated(p)
                     /\ r.pos = LoopAt(p).pos + 1
                /\ (Counted(p) /\ LoopAt(p).err = "nil" /\ ~Terminated(p)) =>
                     /\ r.err # "nil"
                     /\ err # "nil"
                     /\ ret = "hash"

\* A directory decoded in full that nests a hash and an array in its root.
C5_Witness ==
    /\ TreeRead
    /\ ret = "ok"
    /\ Cardinality(Entered) = 3
    /\ \E p \in Entered : buf[p+1] = ArrayType /\ Terminated(p)
    /\ \E p \in Entered : p # 12 /\ buf[p+1] = HashType /\ Terminated(p)


\* The error readHash and readValue reserve for a container whose last entry
\* is not followed by the container's tag.
Unterminated(typ) ==
    IF typ = HashType THEN "unterminated hash" ELSE "unterminated array"

\* C6 (as claimed): a hash whose count is followed by fewer well-formed
\* entries, the buffer ending early included, or whose terminator is not its
\* tag, fails with "unterminated hash" and no other error; likewise an array
\* with "unterminated array". Stated of the directories that were cut, damaged
\* or written short.
C6_FewerEntriesUnterminated ==
    (TreeRead /\ origin.kind # "good") =>
        \A p \in Entered :
            (Counted(p) /\ (LoopAt(p).err # "nil" \/ ~Terminated(p)))
                => readValue(buf, offsets, p).err = Unterminated(buf[p+1])

\* C6 (amended): a container one of whose entries fails, fails with that
\* entry's error; one whose entries decode and are followed by the end of the
\* buffer fails with "buffer too short"; one whose entries decode and are
\* followed by a byte other than its tag fails with "unterminated hash" or
\* "unterminated array"; and one followed by its tag does not fail.
C6_ErrorKinds ==
    TreeRead =>
        \A p \in Entered :
            Counted(p) =>
                LET r    == readValue(buf, offsets, p)
                    loop == LoopAt(p)
                IN  /\ loop.err # "nil" => r.err = loop.err
                    /\ (loop.err = "nil" /\ loop.pos >= Len(buf))
                          => r.err = errTooShort
                    /\ (loop.err = "nil" /\ loop.pos < Len(buf)
                                         /\ buf[loop.pos + 1] # buf[p+1])
                          => r.err = Unterminated(buf[p+1])
                    /\ (loop.err = "nil" /\ Terminated(p)) => r.err = "nil"
                    /\ p = 12 => err = r.err

\* A directory that ends inside the entries of a container: the decode fails
\* with "buffer too short".
C6_Witness ==
    /\ TreeRead
    /\ origin.kind = "short"
    /\ err = errTooShort
    /\ \E p \in Entered : /\ Counted(p)
                          /\ LoopAt(p).err = errTooShort
                          /\ LoopAt(p).pos = Len(buf)

-----------------------------------------------------------------------------
(* The offset table *)

\* The table position, the k-th 32-bit entry behind it, and whether the block
\* holds all four bytes of that entry.
Plo == Int32At(buf, 8)
EntryAt(k) == Int32At(buf, Plo + 1 + 4 * k)
Complete(k) == Plo + 1 + 4 * k + 4 <= Len(buf)
CompleteEntries == { k \in 0..Len(buf) : Complete(k) }

\* The first complete entry that is 0xFFFFFFFF.
FirstSentinel(k) ==
    /\ k \in CompleteEntries
    /\ EntryAt(k) = -1
    /\ \A j \in 0..(k - 1) : EntryAt(j) # -1

\* C7: after readOffsets succeeds the table is the sequence of the entries
\* from table_pos+1 on that precede the first 0xFFFFFFFF: the sentinel is no
\* element of it, and no entry behind the sentinel is.
C7_TableBeforeSentinel ==
    TreeRead =>
        /\ \A i \in 1..Len(offsets) :
              /\ Complete(i - 1)
              /\ offsets[i] = EntryAt(i - 1)
              /\ offsets[i] # -1
        /\ \A k \in CompleteEntries : FirstSentinel(k) => Len(offsets) = k

\* A table of six entries whose sentinel is followed by further whole
\* entries (the bytes of the strings).
C7_Witness ==
    /\ TreeRead
    /\ Len(offsets) = 6
    /\ FirstSentinel(6)
    /\ Complete(8)


-----------------------------------------------------------------------------
(* String resolution *)

\* j is the position of the first zero byte of the block at or after ofs, or
\* the length of the block when there is none.
FirstZero(ofs, j) ==
    /\ j \in ofs..Len(buf)
    /\ j < Len(buf) => buf[j+1] = 0
    /\ \A k \in ofs..(j - 1) : buf[k+1] # 0

\* C8: resolving table index idx over the block and the offset table fails
\* with the invalid-index error when idx < 0 or idx >= len(T); otherwise, with
\* ofs = T[idx], with the invalid-offset error when ofs < 0 or ofs >= len(B);
\* otherwise it returns the bytes B[ofs..j-1], j the position of the first
\* zero byte at or after ofs or len(B) if there is none, the zero byte never
\* part of the result.
C8_StringResolution ==
    TreeRead =>
        \A idx \in -1..Len(offsets) :
            LET r == readString(buf, offsets, idx)
            IN  IF idx < 0 \/ idx >= Len(offsets)
                THEN r.err = "invalid offset index"
                ELSE LET ofs == offsets[idx + 1]
                     IN  IF ofs < 0 \/ ofs >= Len(buf)
                         THEN r.err = "invalid offset"
                         ELSE /\ r.err = "nil"
                              /\ FirstZero(ofs, ofs + Len(r.str))
                              /\ \A k \in 1..Len(r.str) :
                                    r.str[k] = buf[ofs + k] /\ r.str[k] # 0

\* A directory cut behind the last byte of its last string: the double "3.5"
\* of the root is resolved from a string that runs to the end of the block.
C8_Witness ==
    /\ TreeRead
    /\ ret = "ok"
    /\ origin.kind = "cut"
    /\ buf[Len(buf)] # 0
    /\ \E idx \in 0..(Len(offsets) - 1) :
          /\ readString(buf, offsets, idx).err = "nil"
          /\ offsets[idx + 1] + Len(readString(buf, offsets, idx).str) = Len(buf)
          /\ Len(readString(buf, offsets, idx).str) = 3
    /\ \E i \in 1..Len(entries.hash) : entries.hash[i].Value.typ = DoubleType

-----------------------------------------------------------------------------
(* The entries of a hash *)

\* The hash values the decode returns: the root as ReadPack stored it, a
\* nested hash as readValue returns it.
HashesReturned ==
    { p \in Entered : buf[p+1] = HashType /\ readValue(buf, offsets, p).err = "nil" }
HashAt(p) ==
    IF p = 12 /\ ret = "ok" THEN entries.hash
    ELSE readValue(buf, offsets, p).val.hash

\* How often the entry e occurs in the sequence es.
Occurrences(es, e) == Cardinality({ j \in 1..Len(es) : es[j] = e })

\* C9: a hash returned by the decoder holds exactly as many entries as its
\* count declares, they are a permutation of the (key, value) pairs in decode
\* order, entries of equal keys all kept, and their keys do not decrease in
\* byte-wise order.
C9_SortedPermutation ==
    TreeRead =>
        \A p \in HashesReturned :
            LET h       == HashAt(p)
                decoded == LoopAt(p).val
            IN  /\ Len(h) = CountAt(p).x
                /\ Len(decoded) = CountAt(p).x
                /\ \A i \in 1..Len(decoded) :
                      Occurrences(h, decoded[i]) = Occurrences(decoded, decoded[i])
                /\ \A i \in 1..(Len(h) - 1) : ~StrLess(h[i+1].Key, h[i].Key)

\* A root of two entries of the same key and different values; both are in
\* the hash returned.
C9_Witness ==
    /\ TreeRead
    /\ ret = "ok"
    /\ Len(entries.hash) = 2
    /\ entries.hash[1].Key = entries.hash[2].Key
    /\ entries.hash[1].Value # entries.hash[2].Value

-----------------------------------------------------------------------------
(* Abnormal ends *)

\* C10: for every input ReadPack ends by returning nil or an error; it never
\* aborts abnormally, neither on a negative directory_size nor on a negative
\* count of a hash or an array.
C10_NeverPanics == pc = "done" => err # "panic"


-----------------------------------------------------------------------------
(* Failures *)

\* C11: when ReadPack on a fresh Reader returns an error at any step, Entries()
\* is nil afterwards; and readHash and readValue return a nil value together
\* with every error, wherever in the block the decode starts.
C11_NoPartialTree ==
    /\ (pc = "done" /\ err # "nil") => entries = Nil
    /\ TreeRead =>
          \A p \in 12..Len(buf) :
              /\ readValue(buf, offsets, p).err # "nil"
                    => readValue(buf, offsets, p).val = Nil
              /\ readHash(buf, offsets, p).err # "nil"
                    => readHash(buf, offsets, p).val = Nil

\* A decode that fails inside a nested container, after entries of the root
\* were decoded: nothing of the tree is kept.
C11_Witness ==
    /\ TreeRead
    /\ ret = "hash"
    /\ err \notin {"nil", "panic"}
    /\ entries = Nil
    /\ Cardinality(Entered) >= 2
    /\ Counted(12)
    /\ LoopAt(12).pos > 26


\* The hashes the decode enters whose count field is 0.
EmptyHashes ==
    { p \in Entered : buf[p+1] = HashType /\ CountAt(p).err = "nil"
                                          /\ CountAt(p).x = 0 }

\* C12: decoding a hash whose count field is 0 fails, and with an error other
\* than the "buffer too short" that is returned when the bytes run out.
C12_EmptyHashDistinct ==
    TreeRead =>
        \A p \in EmptyHashes :
            /\ readValue(buf, offsets, p).err # "nil"
            /\ readValue(buf, offsets, p).err # errTooShort


-----------------------------------------------------------------------------
(* The children of an array *)

\* The arrays the decode returns.
ArraysReturned ==
    { p \in Entered : buf[p+1] = ArrayType /\ readValue(buf, offsets, p).err = "nil" }

\* Where the encoding of element i (0-based) of the array at p begins: the
\* first right behind the count, each further one where the decode of the
\* one before it ended.
RECURSIVE ElementAt(_, _)
ElementAt(p, i) ==
    IF i = 0 THEN p + 5
    ELSE readValue(buf, offsets, ElementAt(p, i - 1)).pos

\* The value stored under the key k in the decoded root.
RootValues(k) ==
    { entries.hash[i].Value : i \in { j \in 1..Len(entries.hash) :
                                         entries.hash[j].Key = k } }

\* C13: an array decoded with declared count n has exactly n children, child
\* i is the value decoded from the i-th element encoding in wire order, and
\* a null child is the shared Null value; the directory whose root stores
\* [Null, Integer 42, String "hi"] decodes to those three in that order.
C13_ArrayOrder ==
    /\ TreeRead =>
          \A p \in ArraysReturned :
              LET a == readValue(buf, offsets, p).val.array
              IN  /\ Len(a) = CountAt(p).x
                  /\ \A i \in 0..(Len(a) - 1) :
                        /\ a[i+1] = readValue(buf, offsets, ElementAt(p, i)).val
                        /\ buf[ElementAt(p, i) + 1] = NullType => a[i+1] = Null
    /\ (pc = "done" /\ origin.kind = "good" /\ origin.tree = 5 /\ err = "nil")
          => RootValues(Pool[kB + 1]) =
                { [typ |-> ArrayType,
                   array |-> << Null,
                                [typ |-> IntegerType, integer |-> 42],
                                [typ |-> StringType, str |-> Pool[sHi + 1]] >>] }

\* The directory {"B": [Null, Integer 42, String "hi"]} decoded: the array
\* of the root has its three children in wire order.
C13_Witness ==
    /\ pc = "done"
    /\ ret = "ok"
    /\ origin.kind = "good"
    /\ origin.tree = 5
    /\ \E v \in RootValues(Pool[kB + 1]) :
          /\ v.typ = ArrayType
          /\ Len(v.array) = 3
          /\ v.array[1] = Null
          /\ v.array[3].typ = StringType


-----------------------------------------------------------------------------
(* The cipher in closed form *)

\* keyed[i] = b[i] XOR magic[i mod 16] XOR ((i * mult) mod 256), i 0-based,
\* with keyed[-1] = L mod 256.
Keyed(b, m, i) ==
    IF i < 0 THEN Len(b) % 256
    ELSE Xor(Xor(b[i+1], magicBytes[(i % 16) + 1]),
             (i * (IF m = 2 THEN 173 ELSE 109)) % 256)

\* The 0-based index i belongs to a stride 5, 21, 37, ... that lies inside a
\* buffer of length L with both its bytes.
InStride(i, L) ==
    \E k \in 0..L : /\ i \in {5 + 16 * k, 6 + 16 * k}
                    /\ 6 + 16 * k < L

\* out[i] = keyed[i] XOR keyed[i-1], and for m # 0 the bytes of the strides
\* XOR 0x0d.
Closed(b, m) ==
    [ j \in 1..Len(b) |->
        LET out == Xor(Keyed(b, m, j - 1), Keyed(b, m, j - 2))
        IN  IF m # 0 /\ InStride(j - 1, Len(b)) THEN Xor(out, 13) ELSE out ]

\* C14: DecodeXOR computes out[i] = keyed[i] XOR keyed[i-1] with keyed[-1] =
\* L mod 256 and mult = 0xad for m = 2, 0x6d otherwise, and then, only for
\* m # 0, XORs 0x0d into out[i] and out[i+1] for i in 5, 21, 37, ... with
\* i+1 < L; a stride that would pass the end of the buffer changes no byte.
C14_ClosedForm ==
    /\ napplied = 1 => xbuf = Closed(xorig, method)
    /\ napplied = 2 => xbuf = Closed(Closed(xorig, method), method)

\* A buffer of 38 bytes deciphered with method 3: the strides at 5 and 21 are
\* applied, the one at 37, whose second byte would be byte 38, is not.
C14_Witness ==
    /\ napplied = 1
    /\ method = 3
    /\ Len(xorig) = 38
    /\ xbuf # DecodeXOR(xorig, 0)
    /\ xbuf[38] = DecodeXOR(xorig, 0)[38]
    /\ xbuf[22] = Xor(DecodeXOR(xorig, 0)[22], 13)


-----------------------------------------------------------------------------
(* The last entry of the offset table *)

\* C15: readOffsets reads on until the sentinel or until fewer than four bytes
\* remain: every entry that lies inside the block with all its bytes and has
\* no sentinel at or before it is in the table, the one whose last byte is
\* the last byte of the block (pos + 4 = len) included. Stated of the
\* directories that were cut short.
C15_LastEntryIncluded ==
    (TreeRead /\ origin.kind = "cut") =>
        \A k \in CompleteEntries :
            (\A j \in 0..k : EntryAt(j) # -1)
                => /\ Len(offsets) > k
                   /\ offsets[k + 1] = EntryAt(k)


-----------------------------------------------------------------------------
(* The bytes a probe attempt deciphers *)

\* The obfuscated directory as it stands in the file: hdr.size bytes from
\* hdr.offset on.
Original == [i \in 1..hdr.size |-> stream[hdr.offset + i]]

\* C16: every probe attempt deciphers the original directory bytes, read
\* again from the stream at directory_offset, never the output of an attempt
\* before it; and the buffer the offset-table reader and the value decoder
\* get is the original bytes deciphered once with the method that won.
C16_AttemptsFromOriginal ==
    /\ tried # <<>> => buf = DecodeXOR(Original, tried[Len(tried)])
    /\ (pc = "supported" \/ (pc = "done" /\ ret \in {"offsets", "hash", "ok"}))
          => /\ buf = DecodeXOR(Original, method)
             /\ HasSignature(buf)

\* A container of method 2: the second attempt wins, and what the decoder
\* gets is not the first attempt's output deciphered again.
C16_Witness ==
    /\ pc = "done"
    /\ ret = "ok"
    /\ tried = <<3, 2>>
    /\ buf = DecodeXOR(Original, 2)
    /\ buf # DecodeXOR(DecodeXOR(Original, 3), 2)


-----------------------------------------------------------------------------
(* The size of a decode *)

RECURSIVE CallsAt(_, _, _)
RECURSIVE CallsIn(_, _, _, _, _, _)
RECURSIVE DepthAt(_, _, _)
RECURSIVE DepthIn(_, _, _, _, _, _)

\* Where the value of entry i of a container of type typ begins when the
\* entry begins at pos, or -1 when the key of a hash entry does not resolve.
ValueAt(orig, offs, pos, typ) ==
    IF typ = ArrayType THEN pos
    ELSE LET offset == readInt(orig, pos)
         IN  IF offset.err # "nil" THEN -1
             ELSE IF readString(orig, offs, offset.x).err # "nil" THEN -1
             ELSE offset.pos

\* The number of readValue / readHash calls the decode that starts at pos
\* makes, that call included, up to the point where it fails.
CallsAt(orig, offs, pos) ==
    IF Len(orig) - pos < 1 \/ orig[pos+1] \notin {HashType, ArrayType} THEN 1
    ELSE LET typ == orig[pos+1]
             n   == readInt(orig, pos + 1)
         IN  IF n.err # "nil" \/ n.x < 0 \/ (typ = HashType /\ n.x = 0) THEN 1
             ELSE 1 + CallsIn(orig, offs, n.pos, 0, n.x, typ)

CallsIn(orig, offs, pos, i, n, typ) ==
    IF ~(i < n) \/ ValueAt(orig, offs, pos, typ) < 0 THEN 0
    ELSE LET at == ValueAt(orig, offs, pos, typ)
             v  == readValue(orig, offs, at)
         IN  CallsAt(orig, offs, at)
               + IF v.err # "nil" THEN 0
                 ELSE CallsIn(orig, offs, v.pos, i + 1, n, typ)

\* The deepest nesting of calls that decode reaches.
DepthAt(orig, offs, pos) ==
    IF Len(orig) - pos < 1 \/ orig[pos+1] \notin {HashType, ArrayType} THEN 1
    ELSE LET typ == orig[pos+1]
             n   == readInt(orig, pos + 1)
         IN  IF n.err # "nil" \/ n.x < 0 \/ (typ = HashType /\ n.x = 0) THEN 1
             ELSE 1 + DepthIn(orig, offs, n.pos, 0, n.x, typ)

DepthIn(orig, offs, pos, i, n, typ) ==
    IF ~(i < n) \/ ValueAt(orig, offs, pos, typ) < 0 THEN 0
    ELSE LET at   == ValueAt(orig, offs, pos, typ)
             v    == readValue(orig, offs, at)
             here == DepthAt(orig, offs, at)
             rest == IF v.err # "nil" THEN 0
                     ELSE DepthIn(orig, offs, v.pos, i + 1, n, typ)
         IN  IF here > rest THEN here ELSE rest

\* The bytes a value of the tag t takes at least.
LeastBytes(t) ==
    CASE t = NullType -> 1
      [] t \in {StringType, IntegerType, DoubleType} -> 5
      [] t = ArrayType -> 6
      [] OTHER -> 11

\* C17: the decode ends on every deciphered block whatever the counts say:
\* a readValue / readHash call that does not fail consumes at least one byte
\* (a null one, a string or number five, an array six, a hash eleven) and
\* never more than the block holds, and the number of calls and the nesting
\* depth of a decode are at most the number of bytes it starts with.
C17_DecodeBounded ==
    TreeRead =>
        \A p \in 12..(Len(buf) - 1) :
            LET r == readValue(buf, offsets, p)
            IN  /\ r.err = "nil" =>
                      /\ r.pos >= p + LeastBytes(buf[p+1])
                      /\ buf[p+1] \notin {HashType, ArrayType}
                            => r.pos = p + LeastBytes(buf[p+1])
                      /\ r.pos <= Len(buf)
                /\ readHash(buf, offsets, p).err = "nil" =>
                      readHash(buf, offsets, p) = r
                /\ CallsAt(buf, offsets, p) <= Len(buf) - p
                /\ DepthAt(buf, offsets, p) <= CallsAt(buf, offsets, p)

\* A directory whose array count was raised to 255: the element loop runs
\* on behind the three elements until a value fails to decode.
C17_Witness ==
    /\ TreeRead
    /\ origin.kind = "poked"
    /\ err # "nil"
    /\ \E p \in Entered :
          /\ buf[p+1] = ArrayType
          /\ CountAt(p).x = 255
          /\ LoopAt(p).err # "nil"
          /\ LoopAt(p).pos > p + 5 + 11
    /\ CallsAt(buf, offsets, 12) >= 5
    /\ DepthAt(buf, offsets, 12) >= 2


-----------------------------------------------------------------------------
(* A Reader used for several files *)

\* What the Reader retains is what one ReadPack on the file s retains: the
\* method is the first of 3, 2, 1, 0 that yields the signature on the
\* directory of s, the table is the one read from that directory, and the
\* entries are the tree decoded from it.
RetainedFrom(s) ==
    /\ HeaderErr(Len(s)) = "nil"
    /\ Int32At(s, 4) >= 4
    /\ SeekRead(s, Int32At(s, 0), Int32At(s, 4)).err = "nil"
    /\ method \in 0..3
    /\ LET dir == SeekRead(s, Int32At(s, 0), Int32At(s, 4)).data
           b   == DecodeXOR(dir, method)
       IN  /\ HasSignature(b)
           /\ \A m \in (method + 1)..3 : ~HasSignature(DecodeXOR(dir, m))
           /\ readOffsets(b, <<>>) = [err |-> "nil", offsets |-> offsets]
           /\ readHash(b, offsets, 12).err = "nil"
           /\ readHash(b, offsets, 12).val = entries

\* C18: after any sequence of ReadPack calls on one Reader, the stream
\* replaced between the calls, the method, the offset table and Entries()
\* stem from one container, the one of the last ReadPack that succeeded, a
\* failing ReadPack having left them alone; and the method is in 0..3 when
\* Entries() is not nil.
C18_RetainedFromOneContainer ==
    (pc = "done" /\ entries # Nil) =>
        /\ method \in 0..3
        /\ \E s \in ReopenStreams : RetainedFrom(s)

=============================================================================
